---- MODULE Spec2Model ----
(***************************************************************************)
(* RevolutManager: a multi-currency ledger (src/app.py).  The persisted    *)
(* store holds four tables: PredefinedRate, Income, Cost and ExpectedCost. *)
(* Every request handler of the Flask blueprint is one action: it reads    *)
(* the store, either commits a new store or returns an error response and  *)
(* leaves the store as it was (the request-scoped session is discarded).   *)
(*                                                                         *)
(* Python floats are modelled as exact rationals [n, d] in lowest terms,   *)
(* so rounding error is outside the model.                                 *)
(***************************************************************************)
EXTENDS Integers, FiniteSets, Sequences, TLC

VARIABLES
    rates,      \* table PredefinedRate: id -> row
    incomes,    \* table Income: id -> row
    costs,      \* table Cost: id -> row
    expected,   \* table ExpectedCost: id -> row
    last,       \* the response of the request served last
    nreq,       \* the number of requests served
    sessions    \* per worker thread: the cut it is serving, loaded and not
                \* yet committed (used where requests overlap)

vars == <<rates, incomes, costs, expected, last, nreq, sessions>>

(***************************************************************************)
(* Bounds of the model.                                                    *)
(***************************************************************************)
\* number of requests served in one behaviour
MaxRequests == 3

(***************************************************************************)
(* Rational arithmetic (the model of Python's float).                      *)
(***************************************************************************)
RECURSIVE GCD(_, _)
GCD(a, b) == IF b = 0 THEN a ELSE GCD(b, a % b)

Abs(x) == IF x < 0 THEN -x ELSE x

\* n/d in lowest terms with a positive denominator (d # 0)
Rat(n, d) ==
    LET g == GCD(Abs(n), Abs(d))
        s == IF d < 0 THEN -1 ELSE 1
    IN  [n |-> (s * n) \div g, d |-> (s * d) \div g]

RInt(i) == [n |-> i, d |-> 1]
RZero == RInt(0)
\* common factors are cancelled before multiplying, to keep the integers small
RAdd(x, y) ==
    LET g == GCD(x.d, y.d)
    IN  Rat(x.n * (y.d \div g) + y.n * (x.d \div g), (x.d \div g) * y.d)
RSub(x, y) == RAdd(x, [n |-> -y.n, d |-> y.d])
RMul(x, y) ==
    LET g1 == GCD(Abs(x.n), y.d)
        g2 == GCD(Abs(y.n), x.d)
    IN  Rat((x.n \div g1) * (y.n \div g2), (x.d \div g2) * (y.d \div g1))
\* y # 0
RDiv(x, y) == RMul(x, Rat(y.d, y.n))
RLt(x, y) ==
    LET g == GCD(x.d, y.d)
    IN  x.n * (y.d \div g) < y.n * (x.d \div g)
RLe(x, y) == x = y \/ RLt(x, y)

(***************************************************************************)
(* Program constants.                                                      *)
(***************************************************************************)
BASE_CURRENCY == "GBP"
HOME_CURRENCY == "CZK"

\* description = None of a PredefinedRate (an official rate)
NoDescription == "None"
\* expected_ref_id = None of a Cost; also "field not supplied" for an id
NoId == 0

\* the threads that serve requests at the same time
Workers == {1, 2}

\* a thread that serves no request
Idle == [phase |-> "idle"]

(***************************************************************************)
(* Inputs of the requests.                                                 *)
(***************************************************************************)
\* JSON "amount" values a client sends for an Expected Cost (create, cut, edit)
AmountInputs == {-10, 30, 1000}
\* JSON "amount" values a client sends for an Income or a Cost (create, edit)
TxAmountInputs == {-10, 30}
\* JSON "rate_id" values a client sends (3 names no rate until a feed adds one)
RateIdInputs == {1, 2, 3}
\* JSON "expected_ref_id" values a client sends with a new cost
ExpectedRefInputs == {NoId, 1}
\* JSON "currency" values a client sends
CurrencyInputs == {"GBP", "CZK", "EUR"}
\* body of a PUT: amount supplied or not (a description-only edit)
Body(amounts) ==
    {[has_amount |-> FALSE, amount |-> 0]}
        \cup {[has_amount |-> TRUE, amount |-> a] : a \in amounts}

\* JSON "date" of a PUT body: absent, or a string fromisoformat rejects
EditDateInputs == {"absent", "malformed"}
\* body of a PUT /income/<id> or /cost/<id>: amount, description and date, each
\* supplied or not
EditBody(amounts, dates) ==
    {[has_amount |-> b.has_amount, amount |-> b.amount,
      has_description |-> h, description |-> "edited", date |-> d] :
        b \in Body(amounts), h \in BOOLEAN, d \in dates}

\* What the CNB daily file parses to: the (code, CZK per unit) lines in file
\* order, or a failed download.
FeedInputs ==
    { [ok |-> FALSE, lines |-> <<>>],
      [ok |-> TRUE, lines |-> << [code |-> "GBP", rate |-> RInt(40)] >>],
      [ok |-> TRUE, lines |-> << [code |-> "EUR", rate |-> RInt(20)],
                                 [code |-> "GBP", rate |-> RInt(25)] >>],
      [ok |-> TRUE, lines |-> << [code |-> "EUR", rate |-> RInt(20)] >>] }

\* Where the store raises during a refresh: 0 = nowhere, k = when the loop
\* comes to the k-th entry of the mapping (the entries before it were handled).
FailInputs == {0, 2}

(***************************************************************************)
(* Helpers over tables (functions from the primary key to the row).        *)
(***************************************************************************)
Max(S) == CHOOSE x \in S : \A y \in S : y <= x

\* the primary key SQLite gives the next inserted row: max(rowid) + 1
NextId(table) == IF DOMAIN table = {} THEN 1 ELSE Max(DOMAIN table) + 1

Insert(table, id, row) ==
    [i \in DOMAIN table \cup {id} |-> IF i = id THEN row ELSE table[i]]

Delete(table, id) == [i \in DOMAIN table \ {id} |-> table[i]]

\* Query.filter_by(...).first(): the matching row with the lowest id, or NoId
First(S) == IF S = {} THEN NoId ELSE CHOOSE x \in S : \A y \in S : x <= y

\* The response of the request just served and what it was asked: the id in
\* the URL, the amount and rate_id of the body, the ids of the other rows the
\* request created or changed, (for a cut) norm_remaining as it was, and the
\* JSON a read returns (body; for a refresh, what the feed delivered).
Response(op, status, id, amount, rate_id, touched, before) ==
    [op |-> op, status |-> status, id |-> id, amount |-> amount,
     rate_id |-> rate_id, touched |-> touched, before |-> before,
     body |-> <<>>]

(***************************************************************************)
(* fetch_cnb_rates: the pair -> factor mapping built from the CNB file.    *)
(***************************************************************************)
Key(f, t) == [from |-> f, to |-> t]

RECURSIVE CrossKeys(_, _)
\* keys in the order the nested loops insert them, k = (i-1)*n + (j-1)
CrossKeys(lines, k) ==
    LET n == Len(lines)
        i == (k \div n) + 1
        j == (k % n) + 1
    IN  IF k >= n * n THEN <<>>
        ELSE (IF lines[i].code # lines[j].code
                THEN << Key(lines[i].code, lines[j].code),
                        Key(lines[j].code, lines[i].code) >>
                ELSE <<>>) \o CrossKeys(lines, k + 1)

RECURSIVE ExactKeys(_, _)
ExactKeys(lines, i) ==
    IF i > Len(lines) THEN <<>>
    ELSE << Key(lines[i].code, "CZK"), Key("CZK", lines[i].code) >>
            \o ExactKeys(lines, i + 1)

RECURSIVE Dedup(_, _)
\* a dict keeps a key at the position of its first insertion
Dedup(keys, seen) ==
    IF keys = <<>> THEN <<>>
    ELSE IF Head(keys) \in seen THEN Dedup(Tail(keys), seen)
    ELSE <<Head(keys)>> \o Dedup(Tail(keys), seen \cup {Head(keys)})

LineRate(lines, code) ==
    lines[CHOOSE i \in 1..Len(lines) : lines[i].code = code].rate

\* the value stored last under the key f_TO_t
FeedValue(lines, f, t) ==
    IF t = "CZK" THEN LineRate(lines, f)
    ELSE IF f = "CZK" THEN RDiv(RInt(1), LineRate(lines, t))
    ELSE RMul(LineRate(lines, f), RDiv(RInt(1), LineRate(lines, t)))

\* the mapping as a sequence of [from, to, rate] in dict order; {} on failure
fetch_cnb_rates(feed) ==
    IF ~feed.ok THEN <<>>
    ELSE LET keys == Dedup(CrossKeys(feed.lines, 0) \o ExactKeys(feed.lines, 1), {})
         IN  [k \in 1..Len(keys) |->
                [from |-> keys[k].from, to |-> keys[k].to,
                 rate |-> FeedValue(feed.lines, keys[k].from, keys[k].to)]]

HasKey(cnb_rates, f, t) ==
    \E k \in 1..Len(cnb_rates) : cnb_rates[k].from = f /\ cnb_rates[k].to = t

\* Mutant of OfficialRate: a described Rate for the pair is taken when there
\* is one.
OfficialRate_PreferDescribed(rs, f, t) ==
    LET named == {i \in DOMAIN rs : /\ rs[i].from_currency = f
                                    /\ rs[i].to_currency = t
                                    /\ rs[i].description # NoDescription}
    IN  IF named # {} THEN First(named)
        ELSE First({i \in DOMAIN rs : /\ rs[i].from_currency = f
                                       /\ rs[i].to_currency = t
                                       /\ rs[i].description = NoDescription})

\* Mutant of OfficialRate: the lookup leaves out the description filter.
OfficialRate_AnyDescription(rs, f, t) ==
    First({i \in DOMAIN rs : /\ rs[i].from_currency = f
                              /\ rs[i].to_currency = t})

\* filter_by(from_currency, to_currency, description=None).first()
OfficialRate(rs, f, t) ==
    First({i \in DOMAIN rs : /\ rs[i].from_currency = f
                              /\ rs[i].to_currency = t
                              /\ rs[i].description = NoDescription})

\* Mutant of UpsertRate: only the keys ending in _TO_GBP are taken.
UpsertRate_BaseOnly(rs, e) ==
    LET id == OfficialRate(rs, e.from, e.to)
    IN  IF ~(e.to = BASE_CURRENCY) THEN rs
        ELSE IF e.from = e.to THEN rs
        ELSE IF id # NoId /\ rs[id].rate # e.rate
            THEN [rs EXCEPT ![id].rate = e.rate]
        ELSE IF id = NoId
            THEN Insert(rs, NextId(rs),
                        [from_currency |-> e.from, to_currency |-> e.to,
                         rate |-> e.rate, description |-> NoDescription])
        ELSE rs

\* Mutant of UpsertRate: a row is added without looking for an existing one.
UpsertRate_AlwaysInsert(rs, e) ==
    IF ~(e.to = BASE_CURRENCY \/ e.to = HOME_CURRENCY) THEN rs
    ELSE IF e.from = e.to THEN rs
    ELSE Insert(rs, NextId(rs),
                [from_currency |-> e.from, to_currency |-> e.to,
                 rate |-> e.rate, description |-> NoDescription])

\* one iteration of the loop of update_cnb_rates over an entry of the mapping
UpsertRate(rs, e) ==
    LET id == OfficialRate(rs, e.from, e.to)
    IN  IF ~(e.to = BASE_CURRENCY \/ e.to = HOME_CURRENCY) THEN rs
        ELSE IF e.from = e.to THEN rs
        ELSE IF id # NoId /\ rs[id].rate # e.rate
            THEN [rs EXCEPT ![id].rate = e.rate]
        ELSE IF id = NoId
            THEN Insert(rs, NextId(rs),
                        [from_currency |-> e.from, to_currency |-> e.to,
                         rate |-> e.rate, description |-> NoDescription])
        ELSE rs

RECURSIVE ApplyFeed(_, _, _)
ApplyFeed(rs, cnb_rates, k) ==
    IF k > Len(cnb_rates) THEN rs
    ELSE ApplyFeed(UpsertRate(rs, cnb_rates[k]), cnb_rates, k + 1)

\* the Rate table after update_cnb_rates has run on a fetched mapping
RefreshedRates(rs, cnb_rates) ==
    IF cnb_rates = <<>> \/ ~HasKey(cnb_rates, "CZK", "GBP")
                        \/ ~HasKey(cnb_rates, "GBP", "CZK")
        THEN rs
        ELSE ApplyFeed(rs, cnb_rates, 1)

\* does the store raise inside the loop of this refresh
RefreshFails(cnb_rates, failed_at) ==
    /\ HasKey(cnb_rates, "CZK", "GBP")
    /\ HasKey(cnb_rates, "GBP", "CZK")
    /\ failed_at \in 1..Len(cnb_rates)

\* Mutant of Rollback: the pending changes are kept.
Rollback_Partial(committed, partial) == partial

\* db.session.rollback() in the except clause: the session's pending changes
\* (partial) are dropped and the committed table (committed) stays
Rollback(committed, partial) == committed

\* the Rate table update_cnb_rates leaves: committed after the loop, or rolled
\* back when the store raised part-way
CommittedRates(rs, cnb_rates, failed_at) ==
    IF RefreshFails(cnb_rates, failed_at)
        THEN Rollback(rs, ApplyFeed(rs, SubSeq(cnb_rates, 1, failed_at - 1), 1))
        ELSE RefreshedRates(rs, cnb_rates)

(***************************************************************************)
(* Read-time properties of the models.                                     *)
(***************************************************************************)
\* ExpectedCost.current_rate_value: the live factor of the referenced Rate
current_rate_value(e) == rates[e.rate_id].rate

\* ExpectedCost.current_norm_amount
current_norm_amount(e) == RMul(e.amount, current_rate_value(e))

\* Mutant of current_norm_remaining: the stored remaining is reported, not
\* rescaled by the live amount.
current_norm_remaining_Stored(e) ==
    IF RLe(e.norm_amount, RZero) THEN RZero
    ELSE e.norm_remaining

\* ExpectedCost.current_norm_remaining
current_norm_remaining(e) ==
    IF RLe(e.norm_amount, RZero) THEN RZero
    ELSE RMul(current_norm_amount(e), RDiv(e.norm_remaining, e.norm_amount))

\* Mutant of income_current_norm_amount: the stored value whatever the mode.
income_current_norm_amount_Frozen(i) == i.norm_amount

\* Income.current_norm_amount
income_current_norm_amount(i) ==
    IF i.fixed_rate THEN i.norm_amount
    ELSE RMul(i.amount, rates[i.rate_id].rate)

(***************************************************************************)
(* The state after the process has started: create_all and the seeding of  *)
(* the two default rates on an empty database.                             *)
(***************************************************************************)
SeedRates ==
    Insert(Insert(<<>>, 1,
                  [from_currency |-> BASE_CURRENCY, to_currency |-> BASE_CURRENCY,
                   rate |-> RInt(1), description |-> NoDescription]),
           2, [from_currency |-> "CZK", to_currency |-> BASE_CURRENCY,
               rate |-> Rat(35, 1000), description |-> NoDescription])

Init ==
    /\ rates = SeedRates
    /\ incomes = <<>>
    /\ costs = <<>>
    /\ expected = <<>>
    /\ last = Response("start", 200, NoId, 0, NoId, {}, RZero)
    /\ nreq = 0
    /\ sessions = [w \in Workers |-> Idle]

\* A database that also holds Rates with a description (user-named rates
\* for GBP->CZK and EUR->GBP); the seeding finds the two default pairs and
\* adds nothing.
NamedRates ==
    Insert(Insert(SeedRates, 3,
                  [from_currency |-> BASE_CURRENCY, to_currency |-> "CZK",
                   rate |-> RInt(30), description |-> "cash"]),
           4, [from_currency |-> "EUR", to_currency |-> BASE_CURRENCY,
               rate |-> Rat(9, 10), description |-> "card"])

InitNamed ==
    /\ rates = NamedRates
    /\ incomes = <<>>
    /\ costs = <<>>
    /\ expected = <<>>
    /\ last = Response("start", 200, NoId, 0, NoId, {}, RZero)
    /\ nreq = 0
    /\ sessions = [w \in Workers |-> Idle]

\* Mutant of Teardown: what the session held is written to the store.
Teardown_Flush(committed, session) == session

\* A handler returns without db.session.commit(): the request's session is
\* removed when the request ends and the changes it held are rolled back,
\* so the table stays as committed.
Teardown(committed, session) == committed

\* if 'description' in data: row.description = data['description']
Described(row, data) ==
    IF data.has_description THEN [row EXCEPT !.description = data.description]
    ELSE row

\* a request is served: the response is recorded
Serve(op, status, id, amount, rate_id, touched, before) ==
    /\ last' = Response(op, status, id, amount, rate_id, touched, before)
    /\ nreq' = nreq + 1
    /\ UNCHANGED sessions

\* an entry by currency code is served: the code asked for is recorded
ServeCurrency(currency, op, status, id, amount, rate_id, touched, before) ==
    /\ last' = [Response(op, status, id, amount, rate_id, touched, before)
                    EXCEPT !.body = [currency |-> currency]]
    /\ nreq' = nreq + 1
    /\ UNCHANGED sessions

\* a request that answers with a JSON body is served
ServeBody(op, status, body) ==
    /\ last' = [Response(op, status, NoId, 0, NoId, {}, RZero) EXCEPT !.body = body]
    /\ nreq' = nreq + 1
    /\ UNCHANGED sessions

\* Mutant of Refresh: the refresh also re-normalises the stored Incomes and
\* Costs with the new factors.
Refresh_Renormalise(op) ==
    /\ nreq < MaxRequests
    /\ \E feed \in FeedInputs, failed_at \in FailInputs :
          LET cnb_rates == fetch_cnb_rates(feed)
              rs == CommittedRates(rates, cnb_rates, failed_at)
          IN  /\ rates' = rs
              /\ incomes' = [i \in DOMAIN incomes |->
                    [incomes[i] EXCEPT
                        !.norm_rate = rs[incomes[i].rate_id].rate,
                        !.norm_amount = RMul(incomes[i].amount, rs[incomes[i].rate_id].rate)]]
              /\ costs' = [c \in DOMAIN costs |->
                    [costs[c] EXCEPT
                        !.norm_rate = rs[costs[c].rate_id].rate,
                        !.norm_amount = RMul(costs[c].amount, rs[costs[c].rate_id].rate)]]
              /\ ServeBody(op, 200,
                           [cnb_rates |-> cnb_rates,
                            failed |-> RefreshFails(cnb_rates, failed_at)])
    /\ UNCHANGED expected

(***************************************************************************)
(* Feed refresh: update_cnb_rates(app).  It catches every exception, so    *)
(* its callers always go on to answer 200.  Only the Rate table is written.*)
(***************************************************************************)
Refresh(op) ==
    /\ nreq < MaxRequests
    /\ \E feed \in FeedInputs, failed_at \in FailInputs :
          LET cnb_rates == fetch_cnb_rates(feed)
          IN  /\ rates' = CommittedRates(rates, cnb_rates, failed_at)
              /\ ServeBody(op, 200,
                           [cnb_rates |-> cnb_rates,
                            failed |-> RefreshFails(cnb_rates, failed_at)])
    /\ UNCHANGED <<incomes, costs, expected>>

\* POST /rates/update-cnb
update_cnb_rates == Refresh("update_cnb_rates")

\* GET /: the rates are refreshed, then the page is rendered
index == Refresh("index")

(***************************************************************************)
(* Income.                                                                 *)
(***************************************************************************)
\* the row add_income / add_income_currency stores
NewIncome(amount, rate_id, fixed_rate) ==
    [amount |-> RInt(amount),
     currency |-> rates[rate_id].from_currency,
     rate_id |-> rate_id,
     norm_rate |-> rates[rate_id].rate,
     norm_amount |-> RMul(RInt(amount), rates[rate_id].rate),
     fixed_rate |-> fixed_rate,
     description |-> "entered"]

\* POST /income
add_income ==
    /\ nreq < MaxRequests
    /\ \E amount \in TxAmountInputs, rate_id \in RateIdInputs, fixed_rate \in BOOLEAN :
          IF rate_id \notin DOMAIN rates
            THEN /\ Serve("add_income", 404, NoId, 0, rate_id, {}, RZero)
                 /\ UNCHANGED incomes
            ELSE /\ incomes' = Insert(incomes, NextId(incomes),
                                      NewIncome(amount, rate_id, fixed_rate))
                 /\ Serve("add_income", 200, NoId, amount, rate_id,
                          {NextId(incomes)}, RZero)
    /\ UNCHANGED <<rates, costs, expected>>

\* POST /income/currency
add_income_currency ==
    /\ nreq < MaxRequests
    /\ \E amount \in TxAmountInputs, currency \in CurrencyInputs, fixed_rate \in BOOLEAN :
          LET rate_id == OfficialRate(rates, currency, BASE_CURRENCY)
          IN  IF rate_id = NoId
                THEN /\ ServeCurrency(currency, "add_income_currency", 404, NoId, 0, NoId,
                              {}, RZero)
                     /\ UNCHANGED incomes
                ELSE /\ incomes' = Insert(incomes, NextId(incomes),
                            [NewIncome(amount, rate_id, fixed_rate)
                                EXCEPT !.currency = currency])
                     /\ ServeCurrency(currency, "add_income_currency", 200, NoId, amount, rate_id,
                              {NextId(incomes)}, RZero)
    /\ UNCHANGED <<rates, costs, expected>>

\* Mutant of Amended: the edited amount is normalised with the live factor
\* of the Rate instead of the stored norm_rate.
Amended_Live(row, data) ==
    IF data.has_amount
      THEN [row EXCEPT !.amount = RInt(data.amount),
                       !.norm_amount = RMul(RInt(data.amount),
                                            rates[row.rate_id].rate)]
      ELSE row

\* if 'amount' in data: row.amount = new_amount;
\* row.norm_amount = new_amount * row.norm_rate   (Income and Cost)
Amended(row, data) ==
    IF data.has_amount
      THEN [row EXCEPT !.amount = RInt(data.amount),
                       !.norm_amount = RMul(RInt(data.amount), row.norm_rate)]
      ELSE row

\* the ids of the rows a rejected edit had changed in its session
Dirty(id, row, session) == IF session # row THEN {id} ELSE {}

\* PUT /income/<id>
update_income ==
    /\ nreq < MaxRequests
    /\ \E income_id \in 1..NextId(incomes),
          data \in EditBody(TxAmountInputs, EditDateInputs) :
          IF income_id \notin DOMAIN incomes
            THEN /\ Serve("update_income", 404, income_id, 0, NoId,
                          {}, RZero)
                 /\ UNCHANGED incomes
            ELSE LET income == incomes[income_id]
                     described == Described(income, data)
                     amended == Amended(described, data)
                 IN  IF data.has_amount /\ data.amount <= 0
                       THEN /\ incomes' = Teardown(incomes,
                                    [incomes EXCEPT ![income_id] = described])
                            /\ Serve("update_income", 400, income_id, 0, NoId,
                                     Dirty(income_id, income, described), RZero)
                     ELSE IF data.date = "malformed"
                       THEN /\ incomes' = Teardown(incomes,
                                    [incomes EXCEPT ![income_id] = amended])
                            /\ Serve("update_income", 400, income_id, 0, NoId,
                                     Dirty(income_id, income, amended), RZero)
                     ELSE /\ incomes' = [incomes EXCEPT ![income_id] = amended]
                          /\ Serve("update_income", 200, income_id, data.amount,
                                   NoId, {}, RZero)
    /\ UNCHANGED <<rates, costs, expected>>

\* DELETE /income/<id>
delete_income ==
    /\ nreq < MaxRequests
    /\ \E income_id \in 1..NextId(incomes) :
          IF income_id \notin DOMAIN incomes
            THEN /\ Serve("delete_income", 404, income_id, 0, NoId, {}, RZero)
                 /\ UNCHANGED incomes
            ELSE /\ incomes' = Delete(incomes, income_id)
                 /\ Serve("delete_income", 200, income_id, 0, NoId, {}, RZero)
    /\ UNCHANGED <<rates, costs, expected>>

(***************************************************************************)
(* Cost.                                                                   *)
(***************************************************************************)
\* Mutant of NewCost: the currency is the column default, not the Rate's
\* from_currency.
NewCost_DefaultCurrency(amount, rate_id, expected_ref_id) ==
    [amount |-> RInt(amount),
     currency |-> BASE_CURRENCY,
     rate_id |-> rate_id,
     norm_rate |-> rates[rate_id].rate,
     norm_amount |-> RMul(RInt(amount), rates[rate_id].rate),
     expected_ref_id |-> expected_ref_id,
     description |-> "entered"]

\* the row add_cost / add_cost_currency / cut_from_expected stores
NewCost(amount, rate_id, expected_ref_id) ==
    [amount |-> RInt(amount),
     currency |-> rates[rate_id].from_currency,
     rate_id |-> rate_id,
     norm_rate |-> rates[rate_id].rate,
     norm_amount |-> RMul(RInt(amount), rates[rate_id].rate),
     expected_ref_id |-> expected_ref_id,
     description |-> "entered"]

\* POST /cost
add_cost ==
    /\ nreq < MaxRequests
    /\ \E amount \in TxAmountInputs, rate_id \in RateIdInputs,
          expected_ref_id \in ExpectedRefInputs :
          IF rate_id \notin DOMAIN rates
            THEN /\ Serve("add_cost", 404, NoId, 0, rate_id,
                          {}, RZero)
                 /\ UNCHANGED costs
            ELSE /\ costs' = Insert(costs, NextId(costs),
                                    NewCost(amount, rate_id, expected_ref_id))
                 /\ Serve("add_cost", 200, expected_ref_id, amount, rate_id,
                          {NextId(costs)}, RZero)
    /\ UNCHANGED <<rates, incomes, expected>>

\* POST /cost/currency
add_cost_currency ==
    /\ nreq < MaxRequests
    /\ \E amount \in TxAmountInputs, currency \in CurrencyInputs,
          expected_ref_id \in ExpectedRefInputs :
          LET rate_id == OfficialRate(rates, currency, BASE_CURRENCY)
          IN  IF rate_id = NoId
                THEN /\ ServeCurrency(currency, "add_cost_currency", 404, NoId, 0,
                              NoId, {}, RZero)
                     /\ UNCHANGED costs
                ELSE /\ costs' = Insert(costs, NextId(costs),
                            [NewCost(amount, rate_id, expected_ref_id)
                                EXCEPT !.currency = currency])
                     /\ ServeCurrency(currency, "add_cost_currency", 200, expected_ref_id, amount,
                              rate_id, {NextId(costs)}, RZero)
    /\ UNCHANGED <<rates, incomes, expected>>

\* PUT /cost/<id>
update_cost ==
    /\ nreq < MaxRequests
    /\ \E cost_id \in 1..NextId(costs),
          data \in EditBody(TxAmountInputs, EditDateInputs) :
          IF cost_id \notin DOMAIN costs
            THEN /\ Serve("update_cost", 404, cost_id, 0, NoId, {}, RZero)
                 /\ UNCHANGED costs
            ELSE LET cost == costs[cost_id]
                     described == Described(cost, data)
                     amended == Amended(described, data)
                 IN  IF data.has_amount /\ data.amount <= 0
                       THEN /\ costs' = Teardown(costs,
                                    [costs EXCEPT ![cost_id] = described])
                            /\ Serve("update_cost", 400, cost_id, 0, NoId,
                                     Dirty(cost_id, cost, described), RZero)
                     ELSE IF data.date = "malformed"
                       THEN /\ costs' = Teardown(costs,
                                    [costs EXCEPT ![cost_id] = amended])
                            /\ Serve("update_cost", 400, cost_id, 0, NoId,
                                     Dirty(cost_id, cost, amended), RZero)
                     ELSE /\ costs' = [costs EXCEPT ![cost_id] = amended]
                          /\ Serve("update_cost", 200, cost_id, data.amount,
                                   NoId, {}, RZero)
    /\ UNCHANGED <<rates, incomes, expected>>

\* Cost.expected_ref: the Expected Cost the link names, NoId when the link is
\* null or names no row
expected_ref(c) ==
    IF c.expected_ref_id # NoId /\ c.expected_ref_id \in DOMAIN expected
        THEN c.expected_ref_id ELSE NoId

\* Mutant of RestoredExpected: the Cost's amount is added back instead of its
\* stored norm_amount.
RestoredExpected_Amount(c) ==
    IF expected_ref(c) # NoId
        THEN [expected EXCEPT ![expected_ref(c)].norm_remaining = RAdd(@, c.amount)]
        ELSE expected

\* the Expected Cost table after the reversal done by delete_cost
RestoredExpected(c) ==
    IF expected_ref(c) # NoId
        THEN [expected EXCEPT ![expected_ref(c)].norm_remaining =
                                    RAdd(@, c.norm_amount)]
        ELSE expected

\* DELETE /cost/<id>
delete_cost ==
    /\ nreq < MaxRequests
    /\ \E cost_id \in 1..NextId(costs) :
          IF cost_id \notin DOMAIN costs
            THEN /\ Serve("delete_cost", 404, cost_id, 0, NoId, {}, RZero)
                 /\ UNCHANGED <<costs, expected>>
            ELSE /\ expected' = RestoredExpected(costs[cost_id])
                 /\ costs' = Delete(costs, cost_id)
                 /\ Serve("delete_cost", 200, cost_id, 0, NoId,
                          {expected_ref(costs[cost_id])} \ {NoId}, RZero)
    /\ UNCHANGED <<rates, incomes>>

(***************************************************************************)
(* Expected Cost.                                                          *)
(***************************************************************************)
\* the row POST /expected and POST /expected/currency store
NewExpected(amount, rate_id) ==
    [amount |-> RInt(amount),
     currency |-> rates[rate_id].from_currency,
     rate_id |-> rate_id,
     norm_amount |-> RMul(RInt(amount), rates[rate_id].rate),
     norm_remaining |-> RMul(RInt(amount), rates[rate_id].rate),
     description |-> "entered"]

\* POST /expected
expected_list_or_create ==
    /\ nreq < MaxRequests
    /\ \E amount \in AmountInputs, rate_id \in RateIdInputs :
          IF rate_id \notin DOMAIN rates
            THEN /\ Serve("expected_create", 404, NoId, 0, rate_id, {}, RZero)
                 /\ UNCHANGED expected
            ELSE /\ expected' = Insert(expected, NextId(expected),
                                       NewExpected(amount, rate_id))
                 /\ Serve("expected_create", 200, NoId, amount, rate_id,
                          {NextId(expected)}, RZero)
    /\ UNCHANGED <<rates, incomes, costs>>

\* POST /expected/currency
add_expected_currency ==
    /\ nreq < MaxRequests
    /\ \E amount \in AmountInputs, currency \in CurrencyInputs :
          LET rate_id == OfficialRate(rates, currency, BASE_CURRENCY)
          IN  IF rate_id = NoId
                THEN /\ ServeCurrency(currency, "add_expected_currency", 404, NoId, 0, NoId,
                              {}, RZero)
                     /\ UNCHANGED expected
                ELSE /\ expected' = Insert(expected, NextId(expected),
                            [NewExpected(amount, rate_id)
                                EXCEPT !.currency = currency])
                     /\ ServeCurrency(currency, "add_expected_currency", 200, NoId, amount, rate_id,
                              {NextId(expected)}, RZero)
    /\ UNCHANGED <<rates, incomes, costs>>

\* Mutant of EditedExpected: the rate is re-sampled only when an amount is
\* supplied.
EditedExpected_NoResample(e, data) ==
    IF ~data.has_amount THEN e
    ELSE LET norm_amount == RMul(RInt(data.amount), rates[e.rate_id].rate)
         IN  [e EXCEPT !.amount = RInt(data.amount),
                       !.norm_amount = norm_amount,
                       !.norm_remaining =
                           RSub(norm_amount, RSub(e.norm_amount, e.norm_remaining))]

\* the row update_expected commits for a body that passed validation
EditedExpected(e, data) ==
    LET original_norm_paid == RSub(e.norm_amount, e.norm_remaining)
        amount == IF data.has_amount THEN RInt(data.amount) ELSE e.amount
        norm_amount == RMul(amount, rates[e.rate_id].rate)
    IN  [e EXCEPT !.amount = amount,
                  !.norm_amount = norm_amount,
                  !.norm_remaining = RSub(norm_amount, original_norm_paid)]

\* PUT /expected/<id>  (the handler reads no date)
update_expected ==
    /\ nreq < MaxRequests
    /\ \E expected_id \in 1..NextId(expected),
          data \in EditBody(AmountInputs, {"absent"}) :
          IF expected_id \notin DOMAIN expected
            THEN /\ Serve("update_expected", 404, expected_id, 0, NoId,
                          {}, RZero)
                 /\ UNCHANGED expected
            ELSE LET e == expected[expected_id]
                     described == Described(e, data)
                 IN  IF data.has_amount /\ data.amount <= 0
                       THEN /\ expected' = Teardown(expected,
                                    [expected EXCEPT ![expected_id] = described])
                            /\ Serve("update_expected", 400, expected_id, 0, NoId,
                                     Dirty(expected_id, e, described), RZero)
                     ELSE /\ expected' = [expected EXCEPT ![expected_id] =
                                            EditedExpected(described, data)]
                          /\ Serve("update_expected", 200, expected_id,
                                   IF data.has_amount THEN data.amount ELSE 0,
                                   NoId, {}, RZero)
    /\ UNCHANGED <<rates, incomes, costs>>

\* Mutant of CutRejected: the amount is checked against the stored remaining
\* instead of the live one.
CutRejected_Stored(e, amount) ==
    \/ amount <= 0
    \/ RLt(e.norm_remaining, RInt(amount))

\* the validation of the cut amount (the two 400 answers about its value)
CutRejected(e, amount) ==
    \/ amount <= 0
    \/ RLt(current_norm_remaining(e), RInt(amount))

\* Mutant of CutRemaining: the amount is subtracted without rescaling it to
\* the stored norm_amount.
CutRemaining_Unscaled(e, amount) == RSub(e.norm_remaining, RInt(amount))

\* Mutant of CutRemaining: the ratio is taken against the entered amount of
\* the Expected Cost, not against its live normalised amount.
CutRemaining_AmountRatio(e, amount) ==
    LET reduction_ratio ==
            IF RLt(RZero, current_norm_amount(e))
                THEN RDiv(RInt(amount), e.amount)
                ELSE RZero
    IN  RSub(e.norm_remaining, RMul(e.norm_amount, reduction_ratio))

\* "reduce remaining (using original norm_amount scale)"
CutRemaining(e, amount) ==
    LET reduction_ratio ==
            IF RLt(RZero, current_norm_amount(e))
                THEN RDiv(RInt(amount), current_norm_amount(e))
                ELSE RZero
    IN  RSub(e.norm_remaining, RMul(e.norm_amount, reduction_ratio))

\* Mutant of CutRateId: the supplied rate_id is ignored.
CutRateId_Own(e, rate_id) == e.rate_id

\* rate_id = payload.get('rate_id') or expected.rate_id
CutRateId(e, rate_id) == IF rate_id # NoId THEN rate_id ELSE e.rate_id

\* POST /expected/<id>/cut
cut_from_expected ==
    /\ nreq < MaxRequests
    /\ \E expected_id \in 1..NextId(expected), payload \in Body(AmountInputs),
          rate_id \in {NoId} \cup RateIdInputs :
          IF expected_id \notin DOMAIN expected
            THEN /\ Serve("cut", 404, expected_id, 0, NoId, {}, RZero)
                 /\ UNCHANGED <<costs, expected>>
            ELSE LET e == expected[expected_id]
                     amount == payload.amount
                     rid == CutRateId(e, rate_id)
                 IN  IF ~payload.has_amount
                       THEN /\ Serve("cut", 400, expected_id, 0, NoId, {}, RZero)
                            /\ UNCHANGED <<costs, expected>>
                     ELSE IF CutRejected(e, amount)
                       THEN /\ Serve("cut", 400, expected_id, amount, NoId, {},
                                     RZero)
                            /\ UNCHANGED <<costs, expected>>
                     ELSE IF rid \notin DOMAIN rates
                       THEN /\ expected' = Teardown(expected,
                                    [expected EXCEPT ![expected_id].norm_remaining =
                                        CutRemaining(e, amount)])
                            /\ Serve("cut", 404, expected_id, amount, rate_id,
                                     {}, RZero)
                            /\ UNCHANGED costs
                     ELSE /\ expected' = [expected EXCEPT
                                ![expected_id].norm_remaining = CutRemaining(e, amount)]
                          /\ costs' = Insert(costs, NextId(costs),
                                             NewCost(amount, rid, expected_id))
                          /\ Serve("cut", 200, expected_id, amount, rate_id,
                                   {NextId(costs)}, e.norm_remaining)
    /\ UNCHANGED <<rates, incomes>>

\* Mutant of OrphanedCosts: the linked Costs are deleted with the Expected
\* Cost.
OrphanedCosts_Cascade(expected_id) ==
    [c \in {x \in DOMAIN costs : costs[x].expected_ref_id # expected_id} |-> costs[c]]

\* "orphan related costs rather than deleting historical costs"
OrphanedCosts(expected_id) ==
    [c \in DOMAIN costs |->
        IF costs[c].expected_ref_id = expected_id
            THEN [costs[c] EXCEPT !.expected_ref_id = NoId]
            ELSE costs[c]]

\* DELETE /expected/<id>
delete_expected ==
    /\ nreq < MaxRequests
    /\ \E expected_id \in 1..NextId(expected) :
          IF expected_id \notin DOMAIN expected
            THEN /\ Serve("delete_expected", 404, expected_id, 0, NoId, {}, RZero)
                 /\ UNCHANGED <<costs, expected>>
            ELSE /\ costs' = OrphanedCosts(expected_id)
                 /\ expected' = Delete(expected, expected_id)
                 /\ Serve("delete_expected", 200, expected_id, 0, NoId,
                          {c \in DOMAIN costs : costs[c].expected_ref_id = expected_id},
                          RZero)
    /\ UNCHANGED <<rates, incomes>>

(***************************************************************************)
(* Reads.                                                                  *)
(***************************************************************************)
RECURSIVE Sum(_, _)
\* sum(f[i] for i in ids)
Sum(f, ids) ==
    IF ids = {} THEN RZero
    ELSE LET i == CHOOSE x \in ids : TRUE
         IN  RAdd(f[i], Sum(f, ids \ {i}))

\* a JSON null
None == [n |-> 0, d |-> 0]

\* GET /income: the current_norm_amount reported for each Income
list_incomes ==
    /\ nreq < MaxRequests
    /\ ServeBody("list_incomes", 200,
                 [i \in DOMAIN incomes |-> income_current_norm_amount(incomes[i])])
    /\ UNCHANGED <<rates, incomes, costs, expected>>

RECURSIVE SumNormAmount(_, _)
SumNormAmount(table, ids) ==
    IF ids = {} THEN RZero
    ELSE LET i == CHOOSE x \in ids : TRUE
         IN  RAdd(table[i].norm_amount, SumNormAmount(table, ids \ {i}))

\* sum(i.current_norm_amount for i in incomes)
total_income ==
    Sum([i \in DOMAIN incomes |-> income_current_norm_amount(incomes[i])],
        DOMAIN incomes)

\* coalesce(sum(Cost.norm_amount), 0.0)
total_costs == SumNormAmount(costs, DOMAIN costs)

\* Mutant of total_expected_remaining: the stored norm_remaining is summed.
total_expected_remaining_Stored ==
    Sum([e \in DOMAIN expected |-> expected[e].norm_remaining], DOMAIN expected)

\* sum(e.current_norm_remaining for e in expected_costs)
total_expected_remaining ==
    Sum([e \in DOMAIN expected |-> current_norm_remaining(expected[e])],
        DOMAIN expected)

balance == RSub(total_income, RAdd(total_costs, total_expected_remaining))

\* filter_by(from_currency=BASE_CURRENCY, to_currency='CZK').first()
db_rate ==
    First({r \in DOMAIN rates : /\ rates[r].from_currency = BASE_CURRENCY
                                /\ rates[r].to_currency = "CZK"})

\* Mutant of InHome: zero is reported when there is no base->home rate.
InHome_Zero(x) ==
    IF db_rate # NoId THEN RMul(x, rates[db_rate].rate) ELSE RZero

\* x * czk_rate if db_rate else None
InHome(x) ==
    IF db_rate # NoId THEN RMul(x, rates[db_rate].rate) ELSE None

\* the JSON GET /balance returns
BalanceJson ==
    [balance |-> balance,
     total_income |-> total_income,
     total_costs |-> total_costs,
     total_expected_remaining |-> total_expected_remaining,
     balance_czk |-> InHome(balance),
     total_income_czk |-> InHome(total_income),
     total_costs_czk |-> InHome(total_costs),
     total_expected_remaining_czk |-> InHome(total_expected_remaining)]

\* GET /balance
get_balance ==
    /\ nreq < MaxRequests
    /\ ServeBody("get_balance", 200, BalanceJson)
    /\ UNCHANGED <<rates, incomes, costs, expected>>

(***************************************************************************)
(* The specification: requests are served one at a time.                   *)
(***************************************************************************)
Next ==
    \/ update_cnb_rates
    \/ index
    \/ list_incomes
    \/ get_balance
    \/ add_income
    \/ add_income_currency
    \/ update_income
    \/ delete_income
    \/ add_cost
    \/ add_cost_currency
    \/ update_cost
    \/ delete_cost
    \/ expected_list_or_create
    \/ add_expected_currency
    \/ update_expected
    \/ cut_from_expected
    \/ delete_expected

Spec == Init /\ [][Next]_vars

\* the same requests on a database that holds a described Rate
SpecNamed == InitNamed /\ [][Next]_vars

(***************************************************************************)
(* Overlapping cuts.  The server is threaded: a cut is served in two       *)
(* steps, and another request can be served between them.  The first step  *)
(* is the handler up to db.session.commit(): it loads the Expected Cost,   *)
(* validates the amount against it and lowers norm_remaining on the loaded *)
(* object.  The second step is the commit, which writes the value of the   *)
(* loaded object and inserts the Cost.                                     *)
(***************************************************************************)
\* the requests loaded and not yet committed
InFlight == {w \in Workers : sessions[w].phase = "loaded"}

\* POST /expected/<id>/cut up to the commit (no rate_id in the body)
cut_from_expected_load(w) ==
    /\ sessions[w].phase = "idle"
    /\ nreq + Cardinality(InFlight) < MaxRequests
    /\ \E expected_id \in 1..NextId(expected), amount \in AmountInputs :
          IF expected_id \notin DOMAIN expected
            THEN Serve("cut", 404, expected_id, 0, NoId, {}, RZero)
            ELSE IF CutRejected(expected[expected_id], amount)
            THEN Serve("cut", 400, expected_id, amount, NoId, {}, RZero)
            ELSE /\ sessions' = [sessions EXCEPT ![w] =
                        [phase |-> "loaded", expected_id |-> expected_id,
                         amount |-> amount, expected |-> expected[expected_id]]]
                 /\ UNCHANGED <<last, nreq>>
    /\ UNCHANGED <<rates, incomes, costs, expected>>

\* Mutant of FlushedRemaining: the reduction is applied to the row as it is
\* in the store at the commit.
FlushedRemaining_Reread(session, stored) == CutRemaining(stored, session.amount)

\* the norm_remaining the commit writes: the attribute of the object the
\* session loaded, whatever the row (stored) holds by now
FlushedRemaining(session, stored) == CutRemaining(session.expected, session.amount)

\* db.session.add(cost); db.session.commit() of a loaded cut
cut_from_expected_commit(w) ==
    /\ sessions[w].phase = "loaded"
    /\ nreq < MaxRequests
    /\ LET session == sessions[w]
           expected_id == session.expected_id
       IN  /\ expected' = [expected EXCEPT ![expected_id].norm_remaining =
                               FlushedRemaining(session, expected[expected_id])]
           /\ costs' = Insert(costs, NextId(costs),
                              NewCost(session.amount, session.expected.rate_id,
                                      expected_id))
           /\ last' = Response("cut", 200, expected_id, session.amount, NoId,
                               {NextId(costs)}, session.expected.norm_remaining)
           /\ nreq' = nreq + 1
           /\ sessions' = [sessions EXCEPT ![w] = Idle]
    /\ UNCHANGED <<rates, incomes>>

NextRace ==
    \/ expected_list_or_create
    \/ \E w \in Workers : cut_from_expected_load(w)
    \/ \E w \in Workers : cut_from_expected_commit(w)

SpecRace == Init /\ [][NextRace]_vars

(***************************************************************************)
(* The start of the server and the rate cleanup script                     *)
(* (src/cleanup_rates.py).  Each run is one step: the script works in one  *)
(* session and commits once.                                               *)
(***************************************************************************)
\* Query.filter_by(from_currency, to_currency).first(), whatever the
\* description
FirstRate(rs, from_currency, to_currency) ==
    First({r \in DOMAIN rs : /\ rs[r].from_currency = from_currency
                             /\ rs[r].to_currency = to_currency})

\* PredefinedRate(from_currency, to_currency=BASE_CURRENCY, rate, description=None)
DefaultRate(from_currency, rate) ==
    [from_currency |-> from_currency, to_currency |-> BASE_CURRENCY,
     rate |-> rate, description |-> NoDescription]

\* Mutant of WithRate: the row is added without looking for the pair.
WithRate_NoLookup(rs, from_currency, rate) ==
    Insert(rs, NextId(rs), DefaultRate(from_currency, rate))

\* "if not ...first(): db.session.add(PredefinedRate(...))"
WithRate(rs, from_currency, rate) ==
    IF FirstRate(rs, from_currency, BASE_CURRENCY) # NoId
      THEN rs
      ELSE Insert(rs, NextId(rs), DefaultRate(from_currency, rate))

\* the two default rates, each added when its pair is missing
WithDefaultRates(rs) ==
    WithRate(WithRate(rs, BASE_CURRENCY, RInt(1)), "CZK", Rat(35, 1000))

\* what a script run reports: the rates it created and the rates it deleted
Report(before, after) ==
    [created |-> DOMAIN after \ DOMAIN before,
     deleted |-> DOMAIN before \ DOMAIN after]

\* python app.py: the seeding before the server starts
seed_default_rates ==
    /\ nreq < MaxRequests
    /\ rates' = WithDefaultRates(rates)
    /\ ServeBody("seed", 200, Report(rates, rates'))
    /\ UNCHANGED <<incomes, costs, expected>>

\* an Income or a Cost as the cleanup leaves it: records in GBP and in CZK
\* go to the kept rate and norm_amount is recomputed, others are skipped
\* with a warning
Repointed(row, rs, gbp_gbp, czk_gbp) ==
    IF row.currency = "GBP"
      THEN [row EXCEPT !.rate_id = gbp_gbp,
                       !.norm_amount = RMul(row.amount, rs[gbp_gbp].rate)]
    ELSE IF row.currency = "CZK"
      THEN [row EXCEPT !.rate_id = czk_gbp,
                       !.norm_amount = RMul(row.amount, rs[czk_gbp].rate)]
    ELSE row

\* an Expected Cost as the cleanup leaves it: norm_remaining is reset too
RepointedExpected(row, rs, gbp_gbp, czk_gbp) ==
    IF row.currency = "GBP"
      THEN [row EXCEPT !.rate_id = gbp_gbp,
                       !.norm_amount = RMul(row.amount, rs[gbp_gbp].rate),
                       !.norm_remaining = RMul(row.amount, rs[gbp_gbp].rate)]
    ELSE IF row.currency = "CZK"
      THEN [row EXCEPT !.rate_id = czk_gbp,
                       !.norm_amount = RMul(row.amount, rs[czk_gbp].rate),
                       !.norm_remaining = RMul(row.amount, rs[czk_gbp].rate)]
    ELSE row

\* the rows of a table that reference one of the rates
Referencing(table, rate_ids) == {i \in DOMAIN table : table[i].rate_id \in rate_ids}

\* Mutant of IntegrityError: the commit goes through.
IntegrityError_Never(is, cs, es, deleted) == FALSE

\* db.session.delete(rate) on a rate that rows still reference: the rows are
\* in the rate's incomes / costs / expected_costs collection (the backrefs
\* of app.py:48, 83, 106, with no delete cascade), so the flush sets their
\* rate_id to NULL, the column is NOT NULL and the commit raises
IntegrityError(is, cs, es, deleted) ==
    \/ Referencing(is, deleted) # {}
    \/ Referencing(cs, deleted) # {}
    \/ Referencing(es, deleted) # {}

\* the answers to the script's "(y/N)" prompt
ConfirmInputs == {"y", "n"}

\* cleanup_rates.py, option 2
main ==
    /\ nreq < MaxRequests
    /\ \E response \in ConfirmInputs :
          LET kept == WithDefaultRates(rates)
              gbp_gbp == FirstRate(kept, "GBP", "GBP")
              czk_gbp == FirstRate(kept, "CZK", "GBP")
              is == [i \in DOMAIN incomes |->
                        Repointed(incomes[i], kept, gbp_gbp, czk_gbp)]
              cs == [c \in DOMAIN costs |->
                        Repointed(costs[c], kept, gbp_gbp, czk_gbp)]
              es == [e \in DOMAIN expected |->
                        RepointedExpected(expected[e], kept, gbp_gbp, czk_gbp)]
              rates_to_delete == DOMAIN kept \ {gbp_gbp, czk_gbp}
          IN  IF response # "y"
                THEN /\ ServeBody("cleanup", 200, Report(rates, rates))
                     /\ UNCHANGED <<rates, incomes, costs, expected>>
              ELSE IF IntegrityError(is, cs, es, rates_to_delete)
                THEN /\ ServeBody("cleanup", 500, Report(rates, rates))
                     /\ UNCHANGED <<rates, incomes, costs, expected>>
              ELSE /\ rates' = [r \in {gbp_gbp, czk_gbp} |-> kept[r]]
                   /\ incomes' = is
                   /\ costs' = cs
                   /\ expected' = es
                   /\ ServeBody("cleanup", 200, Report(rates, rates'))

\* cleanup_rates.py, option 1
delete_all_rates ==
    /\ nreq < MaxRequests
    /\ \E response \in ConfirmInputs :
          IF response # "y"
            THEN /\ ServeBody("delete_all_rates", 200, Report(rates, rates))
                 /\ UNCHANGED rates
          ELSE IF IntegrityError(incomes, costs, expected, DOMAIN rates)
            THEN /\ ServeBody("delete_all_rates", 500, Report(rates, rates))
                 /\ UNCHANGED rates
          ELSE /\ rates' = <<>>
               /\ ServeBody("delete_all_rates", 200, Report(rates, rates'))
    /\ UNCHANGED <<incomes, costs, expected>>

NextCleanup ==
    \/ Next
    \/ seed_default_rates
    \/ main
    \/ delete_all_rates

SpecCleanup == Init /\ [][NextCleanup]_vars

(***************************************************************************)
(* Monthly summary.  A datetime is [year, month, day, hour]; the rows of   *)
(* this specification carry the date of the transaction.                   *)
(***************************************************************************)
DateTime(y, m, d, h) == [year |-> y, month |-> m, day |-> d, hour |-> h]

\* a <= b on datetimes
DateLe(a, b) ==
    \/ a.year < b.year
    \/ a.year = b.year /\ a.month < b.month
    \/ a.year = b.year /\ a.month = b.month /\ a.day < b.day
    \/ a.year = b.year /\ a.month = b.month /\ a.day = b.day /\ a.hour <= b.hour

\* JSON "date" values a client sends with a new Income or Cost
DateInputs ==
    { DateTime(2023, 12, 31, 18), DateTime(2024, 1, 31, 0),
      DateTime(2024, 2, 1, 0), DateTime(2024, 2, 29, 12),
      DateTime(2024, 3, 1, 0) }

\* what datetime.now() returns when a summary is asked for
NowInputs == { DateTime(2024, 1, 10, 9), DateTime(2024, 3, 15, 12) }

\* the "months" query argument of GET /monthly-summary
MonthsInputs == {0, 1, 2}

\* POST /income with a date in the body
add_income_dated ==
    /\ nreq < MaxRequests
    /\ \E amount \in TxAmountInputs, date \in DateInputs :
          /\ incomes' = Insert(incomes, NextId(incomes),
                               [date |-> date] @@ NewIncome(amount, 1, TRUE))
          /\ Serve("add_income", 200, NoId, amount, 1, {NextId(incomes)}, RZero)
    /\ UNCHANGED <<rates, costs, expected>>

\* POST /cost with a date in the body
add_cost_dated ==
    /\ nreq < MaxRequests
    /\ \E amount \in TxAmountInputs, date \in DateInputs :
          /\ costs' = Insert(costs, NextId(costs),
                             [date |-> date] @@ NewCost(amount, 1, NoId))
          /\ Serve("add_cost", 200, NoId, amount, 1, {NextId(costs)}, RZero)
    /\ UNCHANGED <<rates, incomes, expected>>

\* the number of days of a month: datetime(first of next month) - 1 day
DaysIn(year, month) ==
    IF month \in {4, 6, 9, 11} THEN 30
    ELSE IF month # 2 THEN 31
    ELSE IF year % 4 = 0 /\ (year % 100 # 0 \/ year % 400 = 0) THEN 29
    ELSE 28

\* last_day: the first day of the next month minus timedelta(days=1)
LastDay(year, month) == DateTime(year, month, DaysIn(year, month), 0)

\* first_day = datetime(year, month, 1)
FirstDay(year, month) == DateTime(year, month, 1, 0)

\* the target month of iteration i, with the year rollover
TargetMonth(now, i) ==
    IF now.month - i <= 0
      THEN [year |-> now.year - 1, month |-> now.month - i + 12]
      ELSE [year |-> now.year, month |-> now.month - i]

\* filter(date >= first_day, date <= last_day)
InMonth(table, year, month) ==
    {r \in DOMAIN table : /\ DateLe(FirstDay(year, month), table[r].date)
                          /\ DateLe(table[r].date, LastDay(year, month))}

\* the list get_monthly_summary(months_back) returns
get_monthly_summary(now, months_back) ==
    [k \in 1..months_back |->
        LET t == TargetMonth(now, k - 1)
            monthly_incomes == InMonth(incomes, t.year, t.month)
            monthly_costs == InMonth(costs, t.year, t.month)
            income == Sum([i \in monthly_incomes |->
                             income_current_norm_amount(incomes[i])],
                          monthly_incomes)
            cost == Sum([c \in monthly_costs |-> costs[c].norm_amount],
                        monthly_costs)
        IN  [year |-> t.year, month |-> t.month,
             income |-> income, costs |-> cost, balance |-> RSub(income, cost),
             income_count |-> Cardinality(monthly_incomes),
             costs_count |-> Cardinality(monthly_costs)]]

\* GET /monthly-summary
get_monthly_summary_api ==
    /\ nreq < MaxRequests
    /\ \E now \in NowInputs, months \in MonthsInputs :
          IF months < 1 \/ months > 24
            THEN ServeBody("get_monthly_summary_api", 400, <<>>)
            ELSE ServeBody("get_monthly_summary_api", 200,
                           get_monthly_summary(now, months))
    /\ UNCHANGED <<rates, incomes, costs, expected>>

NextSummary ==
    \/ add_income_dated
    \/ add_cost_dated
    \/ get_monthly_summary_api

SpecSummary == Init /\ [][NextSummary]_vars

(***************************************************************************)
(* Properties.                                                             *)
(***************************************************************************)
\* the request just served (in the step to the primed state) was op, answered 200
Served(op) == nreq' = nreq + 1 /\ last'.op = op /\ last'.status = 200

\* C1: the stored norm_remaining of every Expected Cost is never negative.
C1_RemainingNeverNegative ==
    \A id \in DOMAIN expected : RLe(RZero, expected[id].norm_remaining)

\* C2: the stored norm_remaining of every Expected Cost never exceeds its
\* stored norm_amount.
C2_RemainingAtMostTotal ==
    \A id \in DOMAIN expected :
        RLe(expected[id].norm_remaining, expected[id].norm_amount)

\* C3: a cut whose amount is <= 0 or exceeds the live remaining
\* (amount * live rate * norm_remaining / norm_amount) is answered 400, creates
\* no Cost and leaves every Expected Cost as it was.
C3_RejectedCutChangesNothing ==
    [][ (/\ nreq' = nreq + 1
         /\ last'.op = "cut"
         /\ last'.id \in DOMAIN expected
         /\ LET e == expected[last'.id]
                live == IF RLe(e.norm_amount, RZero) THEN RZero
                        ELSE RDiv(RMul(RMul(e.amount, rates[e.rate_id].rate),
                                       e.norm_remaining), e.norm_amount)
            IN  last'.amount <= 0 \/ RLt(live, RInt(last'.amount)))
        => (last'.status = 400 /\ costs' = costs /\ expected' = expected) ]_vars

\* a cut has just been rejected for exceeding the live remaining although the
\* stored remaining would have covered it
C3_Witness ==
    /\ last.op = "cut" /\ last.status = 400 /\ last.amount > 0
    /\ last.id \in DOMAIN expected
    /\ RLe(RInt(last.amount), expected[last.id].norm_remaining)

\* C4: a successful cut of amount a lowers the stored norm_remaining by
\* norm_amount * a / (amount * live rate) (by 0 when amount * live rate <= 0)
\* and leaves the stored norm_amount and amount as they were.
C4_CutReduction ==
    [][ Served("cut") =>
          LET e == expected[last'.id]
              f == expected'[last'.id]
              cna == RMul(e.amount, rates[e.rate_id].rate)
              reduced == RSub(e.norm_remaining, f.norm_remaining)
          IN  /\ f.amount = e.amount
              /\ f.norm_amount = e.norm_amount
              /\ IF RLt(RZero, cna)
                   THEN RMul(reduced, cna) = RMul(e.norm_amount, RInt(last'.amount))
                   ELSE reduced = RZero ]_vars

\* a cut has just succeeded on an Expected Cost whose live total differs from
\* its stored total
C4_Witness ==
    /\ last.op = "cut" /\ last.status = 200
    /\ last.id \in DOMAIN expected
    /\ current_norm_amount(expected[last.id]) # expected[last.id].norm_amount
    /\ expected[last.id].norm_remaining # last.before

C6_DeleteCostReversal ==
    [][ Served("delete_cost") =>
          LET c == costs[last'.id]
              r == c.expected_ref_id
          IN  /\ DOMAIN costs' = DOMAIN costs \ {last'.id}
              /\ DOMAIN expected' = DOMAIN expected
              /\ \A x \in DOMAIN expected :
                    IF x = r
                      THEN expected'[x] =
                             [expected[x] EXCEPT !.norm_remaining =
                                RAdd(expected[x].norm_remaining, c.norm_amount)]
                      ELSE expected'[x] = expected[x] ]_vars

\* a Cost linked to an Expected Cost has just been deleted and the reversal
\* left that Expected Cost's remaining different from its total
C6_Witness ==
    /\ last.op = "delete_cost" /\ last.status = 200
    /\ last.touched # {}
    /\ \A x \in last.touched :
          expected[x].norm_remaining # expected[x].norm_amount

\* C7: deleting the Cost that the cut just before created puts the Expected
\* Cost's norm_remaining back to its value before the cut.
C7_CutDeleteRoundTrip ==
    [][ (/\ last.op = "cut" /\ last.status = 200
         /\ Served("delete_cost")
         /\ last'.id \in last.touched)
        => expected'[last.id].norm_remaining = last.before ]_vars

C9_DeleteExpectedOrphans ==
    [][ Served("delete_expected") =>
          /\ last'.id \notin DOMAIN expected'
          /\ DOMAIN costs' = DOMAIN costs
          /\ \A c \in DOMAIN costs :
                /\ costs'[c].amount = costs[c].amount
                /\ costs'[c].rate_id = costs[c].rate_id
                /\ costs'[c].norm_rate = costs[c].norm_rate
                /\ costs'[c].norm_amount = costs[c].norm_amount
                /\ costs'[c].expected_ref_id =
                      (IF costs[c].expected_ref_id = last'.id THEN NoId
                       ELSE costs[c].expected_ref_id)
          /\ total_costs' = total_costs ]_vars

\* an Expected Cost with a linked Cost has just been deleted
C9_Witness ==
    /\ last.op = "delete_expected" /\ last.status = 200
    /\ last.touched # {}
    /\ \A c \in last.touched : c \in DOMAIN costs /\ costs[c].expected_ref_id = NoId

\* the requests that enter an Income
IncomeEntries == {"add_income", "add_income_currency"}
\* the requests that enter a Cost
CostEntries == {"add_cost", "add_cost_currency", "cut"}

\* C10: an Income or Cost is entered with norm_rate = the factor of its Rate
\* at that instant and norm_amount = amount * that factor, and a step that
\* changes the Rate table changes no stored Income or Cost.
C10_SnapshotAtEntry ==
    [][ /\ (nreq' = nreq + 1 /\ last'.status = 200 /\ last'.op \in IncomeEntries)
            => \A i \in last'.touched :
                  /\ i \notin DOMAIN incomes
                  /\ incomes'[i].amount = RInt(last'.amount)
                  /\ incomes'[i].norm_rate = rates[incomes'[i].rate_id].rate
                  /\ incomes'[i].norm_amount =
                        RMul(RInt(last'.amount), rates[incomes'[i].rate_id].rate)
        /\ (nreq' = nreq + 1 /\ last'.status = 200 /\ last'.op \in CostEntries)
            => \A c \in last'.touched :
                  /\ c \notin DOMAIN costs
                  /\ costs'[c].amount = RInt(last'.amount)
                  /\ costs'[c].norm_rate = rates[costs'[c].rate_id].rate
                  /\ costs'[c].norm_amount =
                        RMul(RInt(last'.amount), rates[costs'[c].rate_id].rate)
        /\ rates' # rates => (incomes' = incomes /\ costs' = costs) ]_vars

\* a feed refresh has just moved the factor of a Rate away from the snapshot
\* an Income and a Cost keep
C10_Witness ==
    /\ last.op = "update_cnb_rates"
    /\ \E i \in DOMAIN incomes : incomes[i].norm_rate # rates[incomes[i].rate_id].rate
    /\ \E c \in DOMAIN costs : costs[c].norm_rate # rates[costs[c].rate_id].rate

\* C11: an edit of the amount of an Income or a Cost stores norm_amount =
\* new amount * the norm_rate the row already holds (not the live factor),
\* and no edit of an Income, Cost or Expected Cost changes a rate_id or the
\* norm_rate of an Income or Cost.
C11_EditKeepsEntryRate ==
    [][ /\ (Served("update_income") /\ last'.amount # 0)
            => /\ incomes'[last'.id].amount = RInt(last'.amount)
               /\ incomes'[last'.id].norm_amount =
                     RMul(RInt(last'.amount), incomes[last'.id].norm_rate)
        /\ (Served("update_cost") /\ last'.amount # 0)
            => /\ costs'[last'.id].amount = RInt(last'.amount)
               /\ costs'[last'.id].norm_amount =
                     RMul(RInt(last'.amount), costs[last'.id].norm_rate)
        /\ (nreq' = nreq + 1
              /\ last'.op \in {"update_income", "update_cost", "update_expected"})
            => /\ DOMAIN incomes' = DOMAIN incomes
               /\ DOMAIN costs' = DOMAIN costs
               /\ DOMAIN expected' = DOMAIN expected
               /\ \A i \in DOMAIN incomes :
                     /\ incomes'[i].rate_id = incomes[i].rate_id
                     /\ incomes'[i].norm_rate = incomes[i].norm_rate
               /\ \A c \in DOMAIN costs :
                     /\ costs'[c].rate_id = costs[c].rate_id
                     /\ costs'[c].norm_rate = costs[c].norm_rate
               /\ \A e \in DOMAIN expected :
                     expected'[e].rate_id = expected[e].rate_id ]_vars

\* the amount of an Income was edited after the factor of its Rate had moved
\* away from its norm_rate, and norm_amount follows norm_rate
C11_Witness ==
    /\ last.op = "update_income" /\ last.status = 200 /\ last.amount # 0
    /\ last.id \in DOMAIN incomes
    /\ incomes[last.id].norm_rate # rates[incomes[last.id].rate_id].rate
    /\ incomes[last.id].norm_amount =
          RMul(RInt(last.amount), incomes[last.id].norm_rate)

\* C13: for every Expected Cost with stored norm_amount > 0, under every
\* live factor, current_norm_remaining * norm_amount = current_norm_amount *
\* norm_remaining; with norm_amount <= 0 current_norm_remaining is 0.  The
\* equality of the two products is stated as the equality of the ratios
\* current_norm_remaining / norm_remaining = current_norm_amount / norm_amount
\* (and current_norm_remaining = 0 when norm_remaining = 0), which is the same
\* for norm_amount > 0 and keeps the integers small.
C13_RemainingProportional ==
    \A e \in DOMAIN expected :
        IF RLt(RZero, expected[e].norm_amount)
          THEN IF expected[e].norm_remaining = RZero
                 THEN current_norm_remaining(expected[e]) = RZero
                 ELSE RDiv(current_norm_remaining(expected[e]),
                           expected[e].norm_remaining)
                        = RDiv(current_norm_amount(expected[e]),
                               expected[e].norm_amount)
          ELSE current_norm_remaining(expected[e]) = RZero

\* a partly cut Expected Cost whose Rate has moved since it was stored
C13_Witness ==
    \E e \in DOMAIN expected :
        /\ RLt(RZero, expected[e].norm_amount)
        /\ RLt(RZero, expected[e].norm_remaining)
        /\ expected[e].norm_remaining # expected[e].norm_amount
        /\ current_norm_amount(expected[e]) # expected[e].norm_amount
        /\ current_norm_remaining(expected[e]) # expected[e].norm_remaining

\* C20: every stored Income, Cost and Expected Cost has amount > 0, because
\* every create with a non-positive amount is rejected.
C20_StoredAmountsPositive ==
    /\ \A i \in DOMAIN incomes : RLt(RZero, incomes[i].amount)
    /\ \A c \in DOMAIN costs : RLt(RZero, costs[c].amount)
    /\ \A e \in DOMAIN expected : RLt(RZero, expected[e].amount)

\* C12: a read of an Income's current_norm_amount returns the stored
\* norm_amount when fixed_rate is true and amount * the live factor of its
\* Rate when it is false, and the read writes nothing.
C12_IncomeReadByMode ==
    [][ Served("list_incomes")
          => /\ UNCHANGED <<rates, incomes, costs, expected>>
             /\ DOMAIN last'.body = DOMAIN incomes
             /\ \A i \in DOMAIN incomes :
                   last'.body[i] =
                       IF incomes[i].fixed_rate
                         THEN incomes[i].norm_amount
                         ELSE RMul(incomes[i].amount,
                                   rates[incomes[i].rate_id].rate) ]_vars

\* after a rate change a dynamic Income is read: the new value is reported
\* and the stored norm_amount is still amount * the factor at entry
C12_Witness ==
    /\ last.op = "list_incomes"
    /\ \E i \in DOMAIN incomes :
          /\ ~incomes[i].fixed_rate
          /\ last.body[i] # incomes[i].norm_amount
          /\ last.body[i] = RMul(incomes[i].amount, rates[incomes[i].rate_id].rate)
          /\ incomes[i].norm_amount = RMul(incomes[i].amount, incomes[i].norm_rate)

\* C14: the reported balance is the sum of the Incomes' current_norm_amount
\* minus the sum of the Costs' stored norm_amount minus the sum of the
\* Expected Costs' live current_norm_remaining.
C14_Balance ==
    [][ Served("get_balance")
          => last'.body.balance =
                RSub(RSub(Sum([i \in DOMAIN incomes |->
                                 income_current_norm_amount(incomes[i])],
                              DOMAIN incomes),
                          Sum([c \in DOMAIN costs |-> costs[c].norm_amount],
                              DOMAIN costs)),
                     Sum([e \in DOMAIN expected |->
                            current_norm_remaining(expected[e])],
                         DOMAIN expected)) ]_vars

\* a balance was read while an Expected Cost's live remaining differs from
\* its stored remaining
C14_Witness ==
    /\ last.op = "get_balance"
    /\ \E e \in DOMAIN expected :
          /\ RLt(RZero, expected[e].norm_amount)
          /\ current_norm_remaining(expected[e]) # expected[e].norm_remaining
    /\ last.body.balance # RZero

\* C15: the balance read reports each home-currency field as the base total
\* times the live GBP->CZK factor when such a Rate exists and as null (not
\* zero) when none exists; the base fields are reported either way.
C15_HomeFields ==
    [][ Served("get_balance")
          => LET b == last'.body
                 home == {r \in DOMAIN rates : /\ rates[r].from_currency = "GBP"
                                               /\ rates[r].to_currency = "CZK"}
             IN  /\ b.total_income = total_income
                 /\ b.total_costs = total_costs
                 /\ b.total_expected_remaining = total_expected_remaining
                 /\ b.balance # None
                 /\ home = {} =>
                       /\ b.balance_czk = None
                       /\ b.total_income_czk = None
                       /\ b.total_costs_czk = None
                       /\ b.total_expected_remaining_czk = None
                 /\ home # {} =>
                       \E r \in home :
                          /\ b.balance_czk = RMul(b.balance, rates[r].rate)
                          /\ b.total_income_czk = RMul(b.total_income, rates[r].rate)
                          /\ b.total_costs_czk = RMul(b.total_costs, rates[r].rate)
                          /\ b.total_expected_remaining_czk =
                                RMul(b.total_expected_remaining, rates[r].rate) ]_vars

\* a balance with a non-zero total was read while a GBP->CZK Rate exists
C15_Witness ==
    /\ last.op = "get_balance"
    /\ \E r \in DOMAIN rates : /\ rates[r].from_currency = "GBP"
                               /\ rates[r].to_currency = "CZK"
    /\ last.body.total_income # RZero
    /\ last.body.total_income_czk # last.body.total_income
    /\ last.body.total_income_czk # None

\* a refresh (POST /rates/update-cnb or GET /) has just been served
Refreshed == nreq' = nreq + 1 /\ last'.op \in {"update_cnb_rates", "index"}

\* the mapping the refresh fetched holds both CZK_TO_GBP and GBP_TO_CZK
Usable(cnb_rates) ==
    /\ \E k \in 1..Len(cnb_rates) : cnb_rates[k].from = "CZK" /\ cnb_rates[k].to = "GBP"
    /\ \E k \in 1..Len(cnb_rates) : cnb_rates[k].from = "GBP" /\ cnb_rates[k].to = "CZK"

\* the undescribed Rates for the pair f -> t
Undescribed(rs, f, t) ==
    {r \in DOMAIN rs : /\ rs[r].from_currency = f /\ rs[r].to_currency = t
                       /\ rs[r].description = NoDescription}

\* C16: after a refresh whose mapping holds both CZK_TO_GBP and GBP_TO_CZK
\* (and whose store did not fail), for every key X_TO_Y of the mapping with
\* Y in {GBP, CZK} and X # Y there is an undescribed Rate X -> Y holding the
\* mapping's value: a new row if there was none, the same row otherwise.
C16_RefreshUpserts ==
    [][ (Refreshed /\ Usable(last'.body.cnb_rates) /\ ~last'.body.failed)
          => \A k \in 1..Len(last'.body.cnb_rates) :
                LET e == last'.body.cnb_rates[k]
                    old == Undescribed(rates, e.from, e.to)
                    new == Undescribed(rates', e.from, e.to)
                IN  (e.to \in {"GBP", "CZK"} /\ e.from # e.to)
                      => /\ \E r \in new : rates'[r].rate = e.rate
                         /\ old # {} => new = old
                         /\ old = {} => \E r \in new : new = {r} /\ r \notin DOMAIN rates
    ]_vars

\* a refresh has updated CZK->GBP in place and created GBP->CZK
C16_Witness ==
    /\ last.op = "update_cnb_rates"
    /\ Usable(last.body.cnb_rates) /\ ~last.body.failed
    /\ rates[2].from_currency = "CZK" /\ rates[2].to_currency = "GBP"
    /\ rates[2].rate # SeedRates[2].rate
    /\ \E r \in DOMAIN rates \ DOMAIN SeedRates :
          /\ rates[r].from_currency = "GBP" /\ rates[r].to_currency = "CZK"
          /\ \E k \in 1..Len(last.body.cnb_rates) :
                /\ last.body.cnb_rates[k].from = "GBP"
                /\ last.body.cnb_rates[k].to = "CZK"
                /\ last.body.cnb_rates[k].rate = rates[r].rate

\* C17: the refresh is idempotent: after a refresh has applied a mapping,
\* applying the same mapping again leaves every row and every factor as is.
C17_RefreshIdempotent ==
    [][ (Refreshed /\ ~last'.body.failed)
          => RefreshedRates(rates', last'.body.cnb_rates) = rates' ]_vars

\* a refresh that changed the Rate table has run, and a second run of its
\* mapping would change nothing
C17_Witness ==
    /\ last.op = "index"
    /\ Usable(last.body.cnb_rates) /\ ~last.body.failed
    /\ DOMAIN rates # DOMAIN SeedRates
    /\ RefreshedRates(rates, last.body.cnb_rates) = rates
    /\ RefreshedRates(SeedRates, last.body.cnb_rates) # SeedRates

\* C18: a refresh never changes or deletes a described Rate, never creates
\* a Rate for a direction that is not a key of the mapping or whose target
\* is neither GBP nor CZK, and changes no Income, Cost or Expected Cost.
C18_RefreshFootprint ==
    [][ Refreshed
          => /\ DOMAIN rates \subseteq DOMAIN rates'
             /\ \A r \in DOMAIN rates :
                   /\ rates[r].description # NoDescription => rates'[r] = rates[r]
                   /\ rates'[r].from_currency = rates[r].from_currency
                   /\ rates'[r].to_currency = rates[r].to_currency
                   /\ rates'[r].description = rates[r].description
             /\ \A r \in DOMAIN rates' \ DOMAIN rates :
                   /\ rates'[r].description = NoDescription
                   /\ rates'[r].to_currency \in {"GBP", "CZK"}
                   /\ \E k \in 1..Len(last'.body.cnb_rates) :
                         /\ last'.body.cnb_rates[k].from = rates'[r].from_currency
                         /\ last'.body.cnb_rates[k].to = rates'[r].to_currency
             /\ UNCHANGED <<incomes, costs, expected>> ]_vars

\* a refresh has created the undescribed GBP->CZK Rate next to the described
\* one, whose factor differs from the feed's and is still what it was
C18_Witness ==
    /\ last.op = "update_cnb_rates" /\ ~last.body.failed
    /\ \E d \in DOMAIN rates, r \in DOMAIN rates :
          /\ rates[d].description # NoDescription
          /\ rates[d] = NamedRates[d]
          /\ rates[r].description = NoDescription
          /\ r \notin DOMAIN NamedRates
          /\ rates[r].from_currency = rates[d].from_currency
          /\ rates[r].to_currency = rates[d].to_currency
          /\ rates[r].rate # rates[d].rate

\* C19: when the fetch fails, or the mapping lacks CZK_TO_GBP or GBP_TO_CZK,
\* or the store fails part-way, the refresh changes no Rate, and its caller
\* (the endpoint, the index page) still answers 200.
C19_FailedRefreshIsNoOp ==
    [][ Refreshed
          => /\ last'.status = 200
             /\ (\/ last'.body.cnb_rates = <<>>
                 \/ ~Usable(last'.body.cnb_rates)
                 \/ last'.body.failed) => rates' = rates ]_vars

\* the index page was loaded while the store failed after the refresh had
\* handled part of a usable mapping
C19_Witness ==
    /\ last.op = "index" /\ last.status = 200
    /\ Usable(last.body.cnb_rates) /\ last.body.failed
    /\ RefreshedRates(rates, last.body.cnb_rates) # rates

\* C22: every undescribed Rate A -> B with A # B has an undescribed inverse
\* B -> A, and the two factors multiply to 1 (the inverse is there right
\* after the creation and stays consistent afterwards).
C22_InverseConsistency ==
    \A r \in DOMAIN rates :
        (rates[r].description = NoDescription
            /\ rates[r].from_currency # rates[r].to_currency)
          => \E q \in DOMAIN rates :
                /\ rates[q].description = NoDescription
                /\ rates[q].from_currency = rates[r].to_currency
                /\ rates[q].to_currency = rates[r].from_currency
                /\ RMul(rates[r].rate, rates[q].rate) = RInt(1)

\* C25: the currency of every Income, Cost and Expected Cost is the
\* from_currency of the Rate it references.
C25_CurrencyFromRate ==
    /\ \A i \in DOMAIN incomes :
          /\ incomes[i].rate_id \in DOMAIN rates
          /\ incomes[i].currency = rates[incomes[i].rate_id].from_currency
    /\ \A c \in DOMAIN costs :
          /\ costs[c].rate_id \in DOMAIN rates
          /\ costs[c].currency = rates[costs[c].rate_id].from_currency
    /\ \A e \in DOMAIN expected :
          /\ expected[e].rate_id \in DOMAIN rates
          /\ expected[e].currency = rates[expected[e].rate_id].from_currency

\* a cut was paid through another Rate than the Expected Cost's own: the
\* Cost carries the currency of the Rate it names, not the Expected Cost's
C25_Witness ==
    \E c \in DOMAIN costs :
        /\ costs[c].expected_ref_id \in DOMAIN expected
        /\ costs[c].rate_id # expected[costs[c].expected_ref_id].rate_id
        /\ costs[c].currency # expected[costs[c].expected_ref_id].currency
        /\ costs[c].currency # BASE_CURRENCY
        /\ costs[c].currency = rates[costs[c].rate_id].from_currency

\* C27: for every Expected Cost the consumed value norm_amount -
\* norm_remaining is the sum of the stored norm_amount of the Costs linked
\* to it.
C27_ConsumedIsLinkedCosts ==
    \A e \in DOMAIN expected :
        RSub(expected[e].norm_amount, expected[e].norm_remaining)
          = SumNormAmount(costs, {c \in DOMAIN costs : costs[c].expected_ref_id = e})

\* C28: the expected_ref_id of every Cost is null or names an existing
\* Expected Cost.
C28_ExpectedRefExists ==
    \A c \in DOMAIN costs :
        costs[c].expected_ref_id = NoId \/ costs[c].expected_ref_id \in DOMAIN expected

\* an entry by currency code has just been served
EnteredByCurrency ==
    /\ nreq' = nreq + 1
    /\ last'.op \in {"add_income_currency", "add_cost_currency",
                     "add_expected_currency"}

\* the table an entry by currency code writes to
EntryTable(op, i, c, e) ==
    IF op = "add_income_currency" THEN i
    ELSE IF op = "add_cost_currency" THEN c ELSE e

\* C26: an entry by bare currency code stores a row that references the
\* undescribed Rate from that currency to GBP, never a described one; when
\* there is no such Rate the entry is answered 404 and stores nothing.
C26_CurrencyResolvesOfficial ==
    [][ EnteredByCurrency
          => LET official == Undescribed(rates, last'.body.currency, BASE_CURRENCY)
                 new == EntryTable(last'.op, incomes', costs', expected')
             IN  /\ UNCHANGED rates
                 /\ official = {}
                      => /\ last'.status = 404
                         /\ UNCHANGED <<incomes, costs, expected>>
                 /\ official # {}
                      => /\ last'.status = 200
                         /\ last'.touched # {}
                         /\ \A r \in last'.touched :
                               /\ r \notin DOMAIN EntryTable(last'.op, incomes, costs, expected)
                               /\ new[r].rate_id \in official
                               /\ new[r].currency = last'.body.currency ]_vars

\* an Income was entered by a currency for which a described and an
\* undescribed Rate to GBP both exist, and it references the undescribed one
C26_Witness ==
    /\ last.op = "add_income_currency" /\ last.status = 200
    /\ \E r \in DOMAIN rates :
          /\ rates[r].description # NoDescription
          /\ rates[r].from_currency = last.body.currency
          /\ rates[r].to_currency = BASE_CURRENCY
    /\ \A i \in last.touched :
          /\ rates[incomes[i].rate_id].description = NoDescription
          /\ rates[incomes[i].rate_id].from_currency = last.body.currency

\* C21: a mutating request that ends in an error response leaves the store
\* as it was; a cut whose rate_id names no Rate keeps nothing of the
\* reduction it had computed, and an edit that supplies a description with a
\* non-positive amount or a malformed date keeps neither change.
C21_ErrorLeavesStore ==
    [][ (nreq' = nreq + 1 /\ last'.status # 200)
          => UNCHANGED <<rates, incomes, costs, expected>> ]_vars

\* an edit of an Income was rejected after it had set the description in its
\* session, and the stored Income has the description it was entered with
C21_Witness ==
    /\ last.op = "update_income" /\ last.status = 400
    /\ last.touched = {last.id}
    /\ incomes[last.id].description = "entered"

\* C29: the summary of a calendar month counts every Income and every Cost
\* whose date falls within that month, and no other.
C29_SummaryCountsWholeMonth ==
    [][ Served("get_monthly_summary_api")
          => \A k \in 1..Len(last'.body) :
                LET m == last'.body[k]
                IN  /\ m.income_count =
                          Cardinality({i \in DOMAIN incomes :
                                          /\ incomes[i].date.year = m.year
                                          /\ incomes[i].date.month = m.month})
                    /\ m.costs_count =
                          Cardinality({c \in DOMAIN costs :
                                          /\ costs[c].date.year = m.year
                                          /\ costs[c].date.month = m.month}) ]_vars

\* the worker w has just committed its cut
Committed(w) == sessions[w].phase = "loaded" /\ sessions'[w].phase = "idle"

\* the worker w has just loaded a cut that passed the validation
Loaded(w) == sessions[w].phase = "idle" /\ sessions'[w].phase = "loaded"

\* C30: overlapping cuts race.  A cut is validated against the Expected
\* Cost as it is stored when the cut loads it, so a cut that starts after
\* another has committed is validated against the remaining the other left;
\* the commit writes the remaining computed from the loaded copy, so of two
\* cuts that both loaded before either committed the later commit
\* overwrites the earlier one, and each commit adds a linked Cost.
C30_LastCommitWins ==
    [][ \A w \in Workers :
          /\ Loaded(w)
               => /\ sessions'[w].expected = expected[sessions'[w].expected_id]
                  /\ ~RLt(current_norm_remaining(expected[sessions'[w].expected_id]),
                          RInt(sessions'[w].amount))
                  /\ UNCHANGED <<expected, costs>>
          /\ Committed(w)
               => LET s == sessions[w]
                  IN  /\ expected'[s.expected_id].norm_remaining =
                            RSub(s.expected.norm_remaining,
                                 RMul(s.expected.norm_amount,
                                      RDiv(RInt(s.amount),
                                           RMul(s.expected.amount,
                                                rates[s.expected.rate_id].rate))))
                      /\ \E c \in DOMAIN costs' \ DOMAIN costs :
                            /\ DOMAIN costs' = DOMAIN costs \cup {c}
                            /\ costs'[c].expected_ref_id = s.expected_id
                            /\ costs'[c].amount = RInt(s.amount) ]_vars

\* two cuts of the whole remaining were both accepted and both committed:
\* two linked Costs exist, norm_remaining shows one reduction only, and the
\* Costs add up to more than the Expected Cost
C30_Witness ==
    /\ InFlight = {}
    /\ \E e \in DOMAIN expected :
          LET linked == {c \in DOMAIN costs : costs[c].expected_ref_id = e}
          IN  /\ Cardinality(linked) = 2
              /\ RLt(RZero, expected[e].norm_amount)
              /\ expected[e].norm_remaining = RZero
              /\ \A c \in linked : costs[c].norm_amount = expected[e].norm_amount
              /\ RLt(expected[e].norm_amount, SumNormAmount(costs, linked))

\* C23: the Rate table holds at most one row per (from_currency,
\* to_currency, description), the rows without a description included,
\* whatever the sequence of seedings, feed refreshes and cleanup runs.
C23_OneRatePerTriple ==
    \A r1, r2 \in DOMAIN rates :
        ( /\ rates[r1].from_currency = rates[r2].from_currency
          /\ rates[r1].to_currency = rates[r2].to_currency
          /\ rates[r1].description = rates[r2].description ) => r1 = r2

\* a cleanup run has created a missing default rate and deleted another
\* rate, in a table that a feed refresh had filled
C23_Witness ==
    /\ last.op = "cleanup"
    /\ last.status = 200
    /\ last.body.created # {}
    /\ last.body.deleted # {}

C31_CutLowersLiveRemaining ==
    [][ ( /\ Served("cut")
          /\ RLt(RZero, expected[last'.id].norm_amount)
          /\ RLt(RZero, current_rate_value(expected[last'.id])) )
        => LET e == expected[last'.id]
               f == expected'[last'.id]
           IN  /\ rates' = rates
               /\ current_norm_remaining(f) =
                     RSub(current_norm_remaining(e), RInt(last'.amount))
               /\ RLe(RZero, current_norm_remaining(f)) ]_vars

\* a cut has just been taken from an Expected Cost whose Rate has moved
\* since it was stored, and part of it remains
C31_Witness ==
    /\ last.op = "cut" /\ last.status = 200
    /\ last.id \in DOMAIN expected
    /\ RLt(RZero, expected[last.id].norm_amount)
    /\ current_norm_amount(expected[last.id]) # expected[last.id].norm_amount
    /\ RLt(RZero, current_norm_remaining(expected[last.id]))
    /\ expected[last.id].norm_remaining # expected[last.id].norm_amount

\* C32: every stored Income and Cost has norm_amount = amount * norm_rate,
\* after creation, cut, amount edits and feed refreshes, and after a
\* confirmed run of the rate cleanup script.
C32_NormAmountIsAmountTimesNormRate ==
    /\ \A i \in DOMAIN incomes :
          incomes[i].norm_amount = RMul(incomes[i].amount, incomes[i].norm_rate)
    /\ \A c \in DOMAIN costs :
          costs[c].norm_amount = RMul(costs[c].amount, costs[c].norm_rate)

====
